---- MODULE Spec2Model ----
(***************************************************************************)
(* A model of the RAG pipeline of this repository:                         *)
(*   ingestion.py       split_into_chunk (the chunker)                     *)
(*   embed_index.py     building_embedding_index (the corpus indexer)      *)
(*   api.py             index load, retrieve_top_k_chunks, ask             *)
(*   validate_agent.py  cosine_similarity, validate_llm_output             *)
(*                                                                         *)
(* A Python str is a sequence of one-character strings.  An embedding is a *)
(* pair of integers; a similarity is a whole number of thousandths.        *)
(***************************************************************************)
EXTENDS Integers, Sequences, FiniteSets, TLC

VARIABLES
    \* split_into_chunk
    text, max_chars, raw_paragraphs, para_i, chunks, current_chunk, hard, cpc,
    \* building_embedding_index
    documents, doc_i, chunk_idx, all_chunks, metadata, embeddings, build_index,
    bpc, builds,
    \* the two persisted artifacts
    index_file, meta_file,
    \* api.py: module-level state of the query service
    svc, index, chunks_texts, chunks_meta,
    \* retrieve_top_k_chunks
    query, k, indices, retrieved_texts, retrieved_meta, retrieve_raised,
    \* validate_llm_output
    llm_output, is_valid, validation_info, validator_encodes, vpc,
    \* ask
    request_question, question, prompt, apc, response,
    retrieval_calls, completion_calls, validation_calls

chunkVars == <<text, max_chars, raw_paragraphs, para_i, chunks, current_chunk, hard, cpc>>
buildVars == <<documents, doc_i, chunk_idx, all_chunks, metadata, embeddings, build_index,
               bpc, builds>>
diskVars == <<index_file, meta_file>>
svcVars == <<svc, index, chunks_texts, chunks_meta>>

retrVars == <<query, k, indices, retrieved_texts, retrieved_meta, retrieve_raised>>

valVars == <<llm_output, is_valid, validation_info, validator_encodes, vpc>>
askVars == <<request_question, question, prompt, apc, response,
             retrieval_calls, completion_calls, validation_calls>>

vars == <<chunkVars, buildVars, diskVars, svcVars, retrVars, valVars, askVars>>

(***************************************************************************)
(* Bounds of the model.                                                    *)
(***************************************************************************)
MaxTextLen == 8
MaxMaxChars == 4

NL == "\n"
Chars == {"a", "b", NL}
SEP == <<NL, NL>>

Min(a, b) == IF a < b THEN a ELSE b

Texts == UNION {[1..n -> Chars] : n \in 0..MaxTextLen}

(***************************************************************************)
(* ingestion.py: split_into_chunk                                          *)
(***************************************************************************)
\* str.split("\n\n"): leftmost, non-overlapping separators; always >= 1 part.
RECURSIVE SplitFrom(_, _, _)
SplitFrom(t, i, cur) ==
    IF i > Len(t) THEN <<cur>>
    ELSE IF i < Len(t) /\ t[i] = NL /\ t[i + 1] = NL
         THEN <<cur>> \o SplitFrom(t, i + 2, <<>>)
         ELSE SplitFrom(t, i + 1, Append(cur, t[i]))

Split(t) == SplitFrom(t, 1, <<>>)

\* para[i : i + n] with Python's clamping of the upper end (i is 0-based).
Slice(para, i, n) == SubSeq(para, i + 1, Min(i + n, Len(para)))

\* A chunker state: the chunks list, the accumulator, and for each chunk
\* whether it is a piece of a hard paragraph split.
ChunkState(cs, cur, hd) == [chunks |-> cs, current_chunk |-> cur, hard |-> hd]

\* FlushInLoop forgetting to clear the accumulator
FlushInLoop_NoClear(st) ==
    IF st.current_chunk # <<>>
    THEN ChunkState(Append(st.chunks, st.current_chunk), st.current_chunk,
                    Append(st.hard, FALSE))
    ELSE st

\* if current_chunk: chunks.append(current_chunk); current_chunk = ""
FlushInLoop(st) ==
    IF st.current_chunk # <<>>
    THEN ChunkState(Append(st.chunks, st.current_chunk), <<>>, Append(st.hard, FALSE))
    ELSE st

AppendPiece(st, piece) ==
    ChunkState(Append(st.chunks, piece), st.current_chunk, Append(st.hard, TRUE))

\* HardLoop emitting the piece before the pending accumulator
RECURSIVE HardLoop_PieceFirst(_, _, _, _)
HardLoop_PieceFirst(st, para, mx, i) ==
    IF i >= Len(para) THEN st
    ELSE HardLoop_PieceFirst(FlushInLoop(AppendPiece(st, Slice(para, i, mx))),
                             para, mx, i + mx)

\* for i in range(0, len(para), max_chars): ...
RECURSIVE HardLoop(_, _, _, _)
HardLoop(st, para, mx, i) ==
    IF i >= Len(para) THEN st
    ELSE HardLoop(AppendPiece(FlushInLoop(st), Slice(para, i, mx)), para, mx, i + mx)

HardSplit(st, para, mx) == HardLoop(st, para, mx, 0)

\* Accumulate without the two-character separator cost in the test
Accumulate_NoSepCost(st, para, mx) ==
    IF Len(st.current_chunk) + Len(para) > mx
    THEN IF st.current_chunk # <<>>
         THEN ChunkState(Append(st.chunks, st.current_chunk), para, Append(st.hard, FALSE))
         ELSE ChunkState(st.chunks, para, st.hard)
    ELSE IF st.current_chunk # <<>>
         THEN ChunkState(st.chunks, st.current_chunk \o SEP \o para, st.hard)
         ELSE ChunkState(st.chunks, para, st.hard)

\* the else branch: the paragraph fits in max_chars
Accumulate(st, para, mx) ==
    IF Len(st.current_chunk) + Len(para) + 2 > mx
    THEN IF st.current_chunk # <<>>
         THEN ChunkState(Append(st.chunks, st.current_chunk), para, Append(st.hard, FALSE))
         ELSE ChunkState(st.chunks, para, st.hard)
    ELSE IF st.current_chunk # <<>>
         THEN ChunkState(st.chunks, st.current_chunk \o SEP \o para, st.hard)
         ELSE ChunkState(st.chunks, para, st.hard)

ProcessPara(st, para, mx) ==
    IF Len(para) > mx THEN HardSplit(st, para, mx) ELSE Accumulate(st, para, mx)

\* FinalFlush dropping the remaining accumulator
FinalFlush_Dropped(st) == st

\* if current_chunk: chunks.append(current_chunk)
FinalFlush(st) ==
    IF st.current_chunk # <<>>
    THEN ChunkState(Append(st.chunks, st.current_chunk), st.current_chunk, Append(st.hard, FALSE))
    ELSE st

RECURSIVE ProcessAll(_, _, _, _)
ProcessAll(st, paras, mx, i) ==
    IF i > Len(paras) THEN st
    ELSE ProcessAll(ProcessPara(st, paras[i], mx), paras, mx, i + 1)

split_into_chunk(t, mx) ==
    FinalFlush(ProcessAll(ChunkState(<<>>, <<>>, <<>>), Split(t), mx, 1)).chunks

(***************************************************************************)
(* The chunker as a state machine: one step per paragraph.                 *)
(***************************************************************************)
CurState == ChunkState(chunks, current_chunk, hard)

SetState(st) ==
    /\ chunks' = st.chunks
    /\ current_chunk' = st.current_chunk
    /\ hard' = st.hard

ChunkIdle ==
    /\ text = <<>>
    /\ max_chars = 1
    /\ raw_paragraphs = <<>>
    /\ para_i = 1
    /\ chunks = <<>>
    /\ current_chunk = <<>>
    /\ hard = <<>>
    /\ cpc = "idle"

ChunkCall ==
    /\ text \in Texts
    /\ max_chars \in 1..MaxMaxChars
    /\ raw_paragraphs = <<>>
    /\ para_i = 1
    /\ chunks = <<>>
    /\ current_chunk = <<>>
    /\ hard = <<>>
    /\ cpc = "start"

ChunkSplit ==
    /\ cpc = "start"
    /\ raw_paragraphs' = Split(text)
    /\ cpc' = "loop"
    /\ UNCHANGED <<text, max_chars, para_i, chunks, current_chunk, hard>>
    /\ UNCHANGED <<buildVars, diskVars, svcVars, retrVars, valVars, askVars>>

ChunkHardSplit ==
    /\ cpc = "loop"
    /\ para_i <= Len(raw_paragraphs)
    /\ Len(raw_paragraphs[para_i]) > max_chars
    /\ SetState(HardSplit(CurState, raw_paragraphs[para_i], max_chars))
    /\ para_i' = para_i + 1
    /\ UNCHANGED <<text, max_chars, raw_paragraphs, cpc>>
    /\ UNCHANGED <<buildVars, diskVars, svcVars, retrVars, valVars, askVars>>

ChunkAccumulate ==
    /\ cpc = "loop"
    /\ para_i <= Len(raw_paragraphs)
    /\ ~(Len(raw_paragraphs[para_i]) > max_chars)
    /\ SetState(Accumulate(CurState, raw_paragraphs[para_i], max_chars))
    /\ para_i' = para_i + 1
    /\ UNCHANGED <<text, max_chars, raw_paragraphs, cpc>>
    /\ UNCHANGED <<buildVars, diskVars, svcVars, retrVars, valVars, askVars>>

ChunkFinish ==
    /\ cpc = "loop"
    /\ para_i > Len(raw_paragraphs)
    /\ SetState(FinalFlush(CurState))
    /\ cpc' = "done"
    /\ UNCHANGED <<text, max_chars, raw_paragraphs, para_i>>
    /\ UNCHANGED <<buildVars, diskVars, svcVars, retrVars, valVars, askVars>>

NextChunk == ChunkSplit \/ ChunkHardSplit \/ ChunkAccumulate \/ ChunkFinish

(***************************************************************************)
(* The embedding model (SentenceTransformer.encode), an external           *)
(* capability: a fixed function from strings to vectors.                   *)
(***************************************************************************)
VecTable == << <<0, 0>>, <<1, 0>>, <<0, 1>>, <<4, 3>>, <<-3, 4>>, <<3, 4>> >>

RECURSIVE Count(_, _)
Count(str, ch) ==
    IF str = <<>> THEN 0
    ELSE (IF Head(str) = ch THEN 1 ELSE 0) + Count(Tail(str), ch)

Encode(str) ==
    VecTable[((Count(str, "a") + 2 * Count(str, "b") + 3 * Count(str, NL)
               + 4 * Count(str, " ") + Len(str)) % Len(VecTable)) + 1]

\* model.encode(list): one vector per string, in order
EncodeAll(strs) == [i \in 1..Len(strs) |-> Encode(strs[i])]

(***************************************************************************)
(* embed_index.py: building_embedding_index                                *)
(***************************************************************************)
\* split_into_chunk's default max_chars (100 in the source), scaled down to
\* the lengths of the documents of the model
DefaultMaxChars == 3
MaxBuilds == 2

DocNames == {"d1.txt", "d2.txt"}
DocTexts ==
    { <<>>,
      <<"a", "b">>,
      <<"a", NL, NL, "b">>,
      <<"a", NL, NL, "b", "a", "b", "a", "b">> }

\* load_documents: the .txt files of the folder in os.listdir order
Corpora ==
    {<<>>}
    \cup {<<[name |-> n, text |-> t]>> : n \in DocNames, t \in DocTexts}
    \cup {c \in {<<[name |-> n1, text |-> t1], [name |-> n2, text |-> t2]>> :
                    n1 \in DocNames, n2 \in DocNames, t1 \in DocTexts, t2 \in DocTexts} :
            c[1].name # c[2].name}

NoFile == [exists |-> FALSE]

BuildIdle ==
    /\ documents = <<>>
    /\ doc_i = 1
    /\ chunk_idx = 0
    /\ all_chunks = <<>>
    /\ metadata = <<>>
    /\ embeddings = <<>>
    /\ build_index = <<>>
    /\ bpc = "idle"
    /\ builds = 0

DiskEmpty ==
    /\ index_file = NoFile
    /\ meta_file = NoFile

SvcDown ==
    /\ svc = "down"
    /\ index = <<>>
    /\ chunks_texts = <<>>
    /\ chunks_meta = <<>>

RetrIdle ==
    /\ query = <<>>
    /\ k = 0
    /\ indices = <<>>
    /\ retrieved_texts = <<>>
    /\ retrieved_meta = <<>>
    /\ retrieve_raised = FALSE

\* an LLM answer, by the two things the pipeline reads of it: its length and
\* the vector the embedding model gives it
Answer(n, v) == [len |-> n, vec |-> v]

ValIdle ==
    /\ llm_output = Answer(0, <<0, 0>>)
    /\ is_valid = FALSE
    /\ validation_info = [reason |-> "none"]
    /\ validator_encodes = 0
    /\ vpc = "idle"

AskIdle ==
    /\ request_question = <<>>
    /\ question = <<>>
    /\ prompt = <<>>
    /\ apc = "idle"
    /\ response = [status |-> 0]
    /\ retrieval_calls = 0
    /\ completion_calls = 0
    /\ validation_calls = 0

\* chunks = split_into_chunk(content) for the document of the outer loop
DocChunks(d) == split_into_chunk(documents[d].text, DefaultMaxChars)

\* the metadata entry numbering the chunks of a document from 1
MetaEntry_OneBased(doc_name, idx) == <<doc_name, idx + 1>>

\* metadata.append((doc_name, idx))
MetaEntry(doc_name, idx) == <<doc_name, idx>>

\* documents = load_documents(docs_folder); all_chunks = []; metadata = []
BuildStart ==
    /\ bpc \in {"idle", "done", "error"}
    /\ builds < MaxBuilds
    /\ documents' \in Corpora
    /\ doc_i' = 1
    /\ chunk_idx' = 0
    /\ all_chunks' = <<>>
    /\ metadata' = <<>>
    /\ embeddings' = <<>>
    /\ build_index' = <<>>
    /\ bpc' = "loop"
    /\ builds' = builds + 1
    /\ UNCHANGED <<chunkVars, diskVars, svcVars, retrVars, valVars, askVars>>

\* one iteration of: for idx, chunk in enumerate(chunks)
BuildAppend ==
    /\ bpc = "loop"
    /\ doc_i <= Len(documents)
    /\ chunk_idx < Len(DocChunks(doc_i))
    /\ all_chunks' = Append(all_chunks, DocChunks(doc_i)[chunk_idx + 1])
    /\ metadata' = Append(metadata, MetaEntry(documents[doc_i].name, chunk_idx))
    /\ chunk_idx' = chunk_idx + 1
    /\ UNCHANGED <<documents, doc_i, embeddings, build_index, bpc, builds>>
    /\ UNCHANGED <<chunkVars, diskVars, svcVars, retrVars, valVars, askVars>>

\* the inner loop is exhausted: next document of documents.items()
BuildNextDoc ==
    /\ bpc = "loop"
    /\ doc_i <= Len(documents)
    /\ chunk_idx >= Len(DocChunks(doc_i))
    /\ doc_i' = doc_i + 1
    /\ chunk_idx' = 0
    /\ UNCHANGED <<documents, all_chunks, metadata, embeddings, build_index, bpc, builds>>
    /\ UNCHANGED <<chunkVars, diskVars, svcVars, retrVars, valVars, askVars>>

\* embeddings = model.encode(all_chunks); dim = embeddings.shape[1];
\* index = faiss.IndexFlatL2(dim); index.add(embeddings).
\* With no chunk the array has no second axis and shape[1] raises.
BuildEmbed ==
    /\ bpc = "loop"
    /\ doc_i > Len(documents)
    /\ IF all_chunks = <<>>
       THEN /\ bpc' = "error"
            /\ UNCHANGED <<embeddings, build_index>>
       ELSE /\ embeddings' = EncodeAll(all_chunks)
            /\ build_index' = EncodeAll(all_chunks)
            /\ bpc' = "write_index"
    /\ UNCHANGED <<documents, doc_i, chunk_idx, all_chunks, metadata, builds>>
    /\ UNCHANGED <<chunkVars, diskVars, svcVars, retrVars, valVars, askVars>>

\* faiss.write_index(index, index_path)
BuildWriteIndex ==
    /\ bpc = "write_index"
    /\ index_file' = [exists |-> TRUE, vectors |-> build_index]
    /\ bpc' = "write_meta"
    /\ UNCHANGED <<documents, doc_i, chunk_idx, all_chunks, metadata, embeddings,
                   build_index, builds>>
    /\ UNCHANGED <<chunkVars, meta_file, svcVars, retrVars, valVars, askVars>>

\* pickle.dump({"chunks": all_chunks, "metadata": metadata}, f)
BuildWriteMeta ==
    /\ bpc = "write_meta"
    /\ meta_file' = [exists |-> TRUE, chunks |-> all_chunks, metadata |-> metadata]
    /\ bpc' = "done"
    /\ UNCHANGED <<documents, doc_i, chunk_idx, all_chunks, metadata, embeddings,
                   build_index, builds>>
    /\ UNCHANGED <<chunkVars, index_file, svcVars, retrVars, valVars, askVars>>

(***************************************************************************)
(* api.py: the module-level load of the index and the metadata.  The       *)
(* service is a process of its own and may start at any time.              *)
(***************************************************************************)
SvcLoad ==
    /\ svc = "down"
    /\ IF ~index_file.exists \/ ~meta_file.exists
       THEN /\ svc' = "failed"
            /\ UNCHANGED <<index, chunks_texts, chunks_meta>>
       ELSE /\ index' = index_file.vectors
            /\ chunks_texts' = meta_file.chunks
            /\ chunks_meta' = meta_file.metadata
            /\ svc' = "serving"
    /\ UNCHANGED <<chunkVars, buildVars, diskVars, retrVars, valVars, askVars>>

InitBuild == ChunkIdle /\ BuildIdle /\ DiskEmpty /\ SvcDown /\ RetrIdle /\ ValIdle /\ AskIdle

NextBuild ==
    \/ BuildStart
    \/ BuildAppend
    \/ BuildNextDoc
    \/ BuildEmbed
    \/ BuildWriteIndex
    \/ BuildWriteMeta
    \/ SvcLoad

SpecBuild == InitBuild /\ [][NextBuild]_vars

(***************************************************************************)
(* api.py: retrieve_top_k_chunks                                           *)
(***************************************************************************)
TOP_K == 5
MaxK == 6
MaxQuestionLen == 2

Questions == UNION {[1..n -> {" ", "a"}] : n \in 0..MaxQuestionLen}

\* the whole build as a function of the corpus: the lists of lines 18-24
RECURSIVE ChunksOfCorpus(_, _)
ChunksOfCorpus(docs, d) ==
    IF d > Len(docs) THEN <<>>
    ELSE split_into_chunk(docs[d].text, DefaultMaxChars) \o ChunksOfCorpus(docs, d + 1)

RECURSIVE MetadataOfCorpus(_, _)
MetadataOfCorpus(docs, d) ==
    IF d > Len(docs) THEN <<>>
    ELSE LET cs == split_into_chunk(docs[d].text, DefaultMaxChars)
         IN  [j \in 1..Len(cs) |-> MetaEntry(docs[d].name, j - 1)]
               \o MetadataOfCorpus(docs, d + 1)

\* squared L2 distance, the metric of faiss.IndexFlatL2
L2(a, b) == (a[1] - b[1]) * (a[1] - b[1]) + (a[2] - b[2]) * (a[2] - b[2])

\* the 0-based positions `rest` of the stored vectors by ascending distance
\* to q; the order among equal distances is the library's choice
RECURSIVE RankFrom(_, _, _)
RankFrom(idx, q, rest) ==
    IF rest = {} THEN {<<>>}
    ELSE LET nearest == {i \in rest :
                            \A j \in rest : L2(idx[i + 1], q) <= L2(idx[j + 1], q)}
         IN  UNION {{<<i>> \o r : r \in RankFrom(idx, q, rest \ {i})} : i \in nearest}

Rankings(idx, q) == RankFrom(idx, q, 0..(Len(idx) - 1))

\* index.search(q_emb, k)[1][0]: k labels, -1 where the index has no more vectors
Search(idx, q, kk) ==
    {[i \in 1..kk |-> IF i <= Len(idx) THEN p[i] ELSE -1] : p \in Rankings(idx, q)}

\* the range test without its lower bound: -1 then subscripts the last chunk
InRange_NoLowerBound(idx, n) == idx < n

\* 0 <= idx < len(chunks_texts)
InRange(idx, n) == 0 <= idx /\ idx < n

\* a Python list subscript: negative positions count from the end
PyValid(list, idx) == idx < Len(list) /\ idx >= -Len(list)
PyGet(list, idx) == IF idx < 0 THEN list[Len(list) + idx + 1] ELSE list[idx + 1]

Retrieved(ts, ms, r) == [texts |-> ts, meta |-> ms, raised |-> r]

\* for idx in indices: ...
RECURSIVE RetrieveLoop(_, _, _, _, _)
RetrieveLoop(ids, i, texts, metas, acc) ==
    IF i > Len(ids) THEN acc
    ELSE IF InRange(ids[i], Len(texts))
         THEN IF PyValid(texts, ids[i]) /\ PyValid(metas, ids[i])
              THEN RetrieveLoop(ids, i + 1, texts, metas,
                       Retrieved(Append(acc.texts, PyGet(texts, ids[i])),
                                 Append(acc.meta, PyGet(metas, ids[i])), FALSE))
              ELSE Retrieved(acc.texts, acc.meta, TRUE)
         ELSE RetrieveLoop(ids, i + 1, texts, metas, acc)

\* retrieve_top_k_chunks(query, k), given the labels the search returned
retrieve_top_k_chunks(ids) ==
    RetrieveLoop(ids, 1, chunks_texts, chunks_meta, Retrieved(<<>>, <<>>, FALSE))

\* the service state after loading the artifacts of a complete build, or an
\* empty index with empty lists
SvcLoaded ==
    /\ svc = "serving"
    /\ \E c \in Corpora :
        /\ chunks_texts = ChunksOfCorpus(c, 1)
        /\ chunks_meta = MetadataOfCorpus(c, 1)
        /\ index = EncodeAll(ChunksOfCorpus(c, 1))

\* one call of retrieve_top_k_chunks per behaviour: the call reads the service
\* state and changes none of it
RetrieveCall ==
    /\ svc = "serving"
    /\ k = 0
    /\ \E q \in Questions, kk \in 1..MaxK :
        \E ids \in Search(index, Encode(q), kk) :
            /\ query' = q
            /\ k' = kk
            /\ indices' = ids
            /\ retrieved_texts' = retrieve_top_k_chunks(ids).texts
            /\ retrieved_meta' = retrieve_top_k_chunks(ids).meta
            /\ retrieve_raised' = retrieve_top_k_chunks(ids).raised
    /\ UNCHANGED <<chunkVars, buildVars, diskVars, svcVars, valVars, askVars>>

InitRetrieve == ChunkIdle /\ BuildIdle /\ DiskEmpty /\ SvcLoaded /\ RetrIdle /\ ValIdle /\ AskIdle

NextRetrieve == RetrieveCall

SpecRetrieve == InitRetrieve /\ [][NextRetrieve]_vars

InitChunk == ChunkCall /\ BuildIdle /\ DiskEmpty /\ SvcDown /\ RetrIdle /\ ValIdle /\ AskIdle

SpecChunk == InitChunk /\ [][NextChunk]_vars

(***************************************************************************)
(* validate_agent.py                                                       *)
(***************************************************************************)
MAX_CHARS == 5000
\* SIMILARITY_THRESHOLD = 0.1, in thousandths
SIMILARITY_THRESHOLD == 100
MaxRetrieved == 3

Dot(a, b) == a[1] * b[1] + a[2] * b[2]

\* np.linalg.norm on the vectors of VecTable, whose norms are whole numbers
Norm(a) == CHOOSE n \in 0..(Dot(a, a)) : n * n = Dot(a, a)

\* np.all(a == 0)
AllZero(a) == a[1] = 0 /\ a[2] = 0

\* cosine_similarity(a, b), in thousandths
cosine_similarity(a, b) ==
    IF AllZero(a) \/ AllZero(b) THEN 0
    ELSE (Dot(a, b) * 1000) \div (Norm(a) * Norm(b))

RECURSIVE SumSeq(_)
SumSeq(xs) == IF xs = <<>> THEN 0 ELSE Head(xs) + SumSeq(Tail(xs))

\* float(np.mean(sims)) if sims else 0.0, as the fraction num / den
MeanOf(sims) ==
    IF sims # <<>> THEN [num |-> SumSeq(sims), den |-> Len(sims)]
    ELSE [num |-> 0, den |-> 1]

\* len(llm_output) > MAX_CHARS with the comparison made inclusive
LengthExceeded_Inclusive(n) == n >= MAX_CHARS

\* len(llm_output) > MAX_CHARS
LengthExceeded(n) == n > MAX_CHARS

\* avg_sim < SIMILARITY_THRESHOLD with the comparison made inclusive
BelowThreshold_Inclusive(avg) == avg.num <= SIMILARITY_THRESHOLD * avg.den

\* avg_sim < SIMILARITY_THRESHOLD
BelowThreshold(avg) == avg.num < SIMILARITY_THRESHOLD * avg.den

\* sims.append(cosine_similarity(resp_emb, emb)) for emb in chunk_embs
Similarities(resp_emb, chunk_embs) ==
    [i \in 1..Len(chunk_embs) |-> cosine_similarity(resp_emb, chunk_embs[i])]

\* validate_llm_output(llm_output, question, retrieved_texts): the verdict,
\* the info dict, and how many times the embedding model was called
validate_llm_output(out, texts) ==
    IF LengthExceeded(out.len)
    THEN [is_valid |-> FALSE,
          info |-> [reason |-> "length_exceeded"],
          encodes |-> 0]
    ELSE LET resp_emb == out.vec
             chunk_embs == EncodeAll(texts)
             sims == Similarities(resp_emb, chunk_embs)
             avg_sim == MeanOf(sims)
         IN  IF BelowThreshold(avg_sim)
             THEN [is_valid |-> FALSE,
                   info |-> [average_similarity_with_chunks |-> avg_sim,
                             individual_similarities |-> sims,
                             reason |-> "low_similarity"],
                   encodes |-> 2]
             ELSE [is_valid |-> TRUE,
                   info |-> [average_similarity_with_chunks |-> avg_sim,
                             individual_similarities |-> sims,
                             reason |-> "success"],
                   encodes |-> 2]

AnswerLens == {0, 1, MAX_CHARS - 1, MAX_CHARS, MAX_CHARS + 1, MAX_CHARS + 1000}
Vectors == {VecTable[i] : i \in 1..Len(VecTable)}
Answers == {Answer(n, v) : n \in AnswerLens, v \in Vectors}

\* chunks that between them take every vector of VecTable
SampleChunks ==
    { <<"a">>, <<"b">>, <<"a", "a">>, <<"a", "b">>, <<"a", "a", "b">>, <<"b", "b">> }

RetrievedLists == UNION {[1..n -> SampleChunks] : n \in 0..MaxRetrieved}

ValidateInput ==
    /\ llm_output \in Answers
    /\ is_valid = FALSE
    /\ validation_info = [reason |-> "none"]
    /\ validator_encodes = 0
    /\ vpc = "called"
    /\ query = <<>>
    /\ k = 0
    /\ indices = <<>>
    /\ retrieved_texts \in RetrievedLists
    /\ retrieved_meta = <<>>
    /\ retrieve_raised = FALSE

ValidateCall ==
    /\ vpc = "called"
    /\ is_valid' = validate_llm_output(llm_output, retrieved_texts).is_valid
    /\ validation_info' = validate_llm_output(llm_output, retrieved_texts).info
    /\ validator_encodes' = validate_llm_output(llm_output, retrieved_texts).encodes
    /\ vpc' = "returned"
    /\ UNCHANGED <<llm_output>>
    /\ UNCHANGED <<chunkVars, buildVars, diskVars, svcVars, retrVars, askVars>>

InitValidate == ChunkIdle /\ BuildIdle /\ DiskEmpty /\ SvcDown /\ ValidateInput /\ AskIdle

NextValidate == ValidateCall

SpecValidate == InitValidate /\ [][NextValidate]_vars

(***************************************************************************)
(* api.py: build_prompt, call_openai, ask                                  *)
(***************************************************************************)
\* str.strip(): leading and trailing whitespace removed
RECURSIVE StripLeft(_)
StripLeft(str) ==
    IF str # <<>> /\ Head(str) = " " THEN StripLeft(Tail(str)) ELSE str

RECURSIVE StripRight(_)
StripRight(str) ==
    IF str # <<>> /\ str[Len(str)] = " "
    THEN StripRight(SubSeq(str, 1, Len(str) - 1))
    ELSE str

Strip(str) == StripRight(StripLeft(str))

\* build_prompt: preamble, the chunks numbered from 1, the question, the suffix
build_prompt(q, texts) ==
    <<"PREAMBLE", "CONTEXT", [i \in 1..Len(texts) |-> <<"CHUNK", i, texts[i]>>],
      "QUESTION", q, "SUFFIX">>

\* the handler answering although the validator rejected
ResponseFor_IgnoreVerdict(valid, info, out, texts) ==
    [status |-> 200, answer |-> out, retrieved_chunks |-> texts]

\* lines 105-115: HTTPException(502, ...) or QueryResponse(...)
ResponseFor(valid, info, out, texts) ==
    IF ~valid
    THEN [status |-> 502,
          detail |-> [error |-> "validation_failed", validation_info |-> info]]
    ELSE [status |-> 200, answer |-> out, retrieved_chunks |-> texts]

\* question = request.question.strip(); the empty question is refused
AskStart ==
    /\ svc = "serving"
    /\ apc \in {"idle", "done"}
    /\ \E rq \in Questions :
        /\ request_question' = rq
        /\ question' = Strip(rq)
        /\ IF Strip(rq) = <<>>
           THEN /\ response' = [status |-> 400, detail |-> "empty_question"]
                /\ apc' = "done"
           ELSE /\ response' = [status |-> 0]
                /\ apc' = "retrieve"
    /\ prompt' = <<>>
    /\ retrieval_calls' = 0
    /\ completion_calls' = 0
    /\ validation_calls' = 0
    /\ query' = <<>>
    /\ k' = 0
    /\ indices' = <<>>
    /\ retrieved_texts' = <<>>
    /\ retrieved_meta' = <<>>
    /\ retrieve_raised' = FALSE
    /\ llm_output' = Answer(0, <<0, 0>>)
    /\ is_valid' = FALSE
    /\ validation_info' = [reason |-> "none"]
    /\ validator_encodes' = 0
    /\ vpc' = "idle"
    /\ UNCHANGED <<chunkVars, buildVars, diskVars, svcVars>>

\* retrieved_texts, retrieved_meta = retrieve_top_k_chunks(question)
AskRetrieve ==
    /\ apc = "retrieve"
    /\ \E ids \in Search(index, Encode(question), TOP_K) :
        /\ query' = question
        /\ k' = TOP_K
        /\ indices' = ids
        /\ retrieved_texts' = retrieve_top_k_chunks(ids).texts
        /\ retrieved_meta' = retrieve_top_k_chunks(ids).meta
        /\ retrieve_raised' = retrieve_top_k_chunks(ids).raised
        /\ IF retrieve_top_k_chunks(ids).raised
           THEN /\ response' = [status |-> 500, detail |-> "IndexError"]
                /\ apc' = "done"
           ELSE /\ response' = response
                /\ apc' = "prompt"
    /\ retrieval_calls' = retrieval_calls + 1
    /\ UNCHANGED <<request_question, question, prompt, completion_calls, validation_calls>>
    /\ UNCHANGED <<chunkVars, buildVars, diskVars, svcVars, valVars>>

\* prompt = build_prompt(question, retrieved_texts)
AskBuildPrompt ==
    /\ apc = "prompt"
    /\ prompt' = build_prompt(question, retrieved_texts)
    /\ apc' = "complete"
    /\ UNCHANGED <<request_question, question, response,
                   retrieval_calls, completion_calls, validation_calls>>
    /\ UNCHANGED <<chunkVars, buildVars, diskVars, svcVars, retrVars, valVars>>

\* llm_output = call_openai(prompt): the completion service answers
AskComplete ==
    /\ apc = "complete"
    /\ llm_output' \in Answers
    /\ completion_calls' = completion_calls + 1
    /\ apc' = "validate"
    /\ UNCHANGED <<is_valid, validation_info, validator_encodes, vpc>>
    /\ UNCHANGED <<request_question, question, prompt, response,
                   retrieval_calls, validation_calls>>
    /\ UNCHANGED <<chunkVars, buildVars, diskVars, svcVars, retrVars>>

\* call_openai raises RuntimeError: the request ends with a server error
AskCompleteFail ==
    /\ apc = "complete"
    /\ completion_calls' = completion_calls + 1
    /\ response' = [status |-> 500, detail |-> "RuntimeError"]
    /\ apc' = "done"
    /\ UNCHANGED <<request_question, question, prompt, retrieval_calls, validation_calls>>
    /\ UNCHANGED <<chunkVars, buildVars, diskVars, svcVars, retrVars, valVars>>

\* is_valid, validation_info = validate_llm_output(...); raise 502 or return
AskValidate ==
    /\ apc = "validate"
    /\ LET v == validate_llm_output(llm_output, retrieved_texts)
       IN  /\ is_valid' = v.is_valid
           /\ validation_info' = v.info
           /\ validator_encodes' = v.encodes
           /\ response' = ResponseFor(v.is_valid, v.info, llm_output, retrieved_texts)
    /\ vpc' = "returned"
    /\ validation_calls' = validation_calls + 1
    /\ apc' = "done"
    /\ UNCHANGED <<llm_output, request_question, question, prompt,
                   retrieval_calls, completion_calls>>
    /\ UNCHANGED <<chunkVars, buildVars, diskVars, svcVars, retrVars>>

InitAsk == ChunkIdle /\ BuildIdle /\ DiskEmpty /\ SvcLoaded /\ RetrIdle /\ ValIdle /\ AskIdle

NextAsk ==
    \/ AskStart
    \/ AskRetrieve
    \/ AskBuildPrompt
    \/ AskComplete
    \/ AskCompleteFail
    \/ AskValidate

SpecAsk == InitAsk /\ [][NextAsk]_vars

(***************************************************************************)
(* Properties of the chunker                                               *)
(***************************************************************************)
RECURSIVE Flatten(_)
Flatten(ss) == IF ss = <<>> THEN <<>> ELSE Head(ss) \o Flatten(Tail(ss))

\* a chunk with the paragraph separators inside it removed
StripSeps(c) == Flatten(Split(c))

Content(cs, hd) ==
    Flatten([i \in 1..Len(cs) |-> IF hd[i] THEN cs[i] ELSE StripSeps(cs[i])])

CeilDiv(a, b) == (a + b - 1) \div b

\* C1: every chunk that is not a piece of a hard paragraph split has length
\* <= max_chars, and no chunk is the empty string.
Thm_C1_ChunkBound ==
    \A i \in 1..Len(chunks) :
        /\ chunks[i] # <<>>
        /\ ~hard[i] => Len(chunks[i]) <= max_chars

Wit_C1 ==
    /\ cpc = "done"
    /\ Len(chunks) >= 3
    /\ \E i, j \in 1..Len(chunks) : ~hard[i] /\ Len(chunks[i]) = max_chars /\ hard[j]

\* C2: the chunks in output order, with the paragraph separators inside
\* accumulated chunks removed, are exactly the paragraphs of the text in their
\* original order: nothing is lost, duplicated or reordered.  During the loop
\* the same holds of the chunks and the accumulator against the paragraphs
\* processed so far.
Thm_C2_ContentPreserved ==
    /\ cpc = "loop" =>
         Content(chunks, hard) \o StripSeps(current_chunk)
           = Flatten(SubSeq(raw_paragraphs, 1, para_i - 1))
    /\ cpc = "done" => Content(chunks, hard) = Flatten(Split(text))

Wit_C2 ==
    /\ cpc = "done"
    /\ Len(raw_paragraphs) >= 3
    /\ Len(chunks) >= 3
    /\ \E i, j \in 1..Len(chunks) : i < j /\ ~hard[i] /\ hard[j]
    /\ \E i, j \in 1..Len(text) : text[i] = "a" /\ text[j] = "b"

TwoParagraphs ==
    /\ cpc = "done"
    /\ Len(raw_paragraphs) = 2
    /\ raw_paragraphs[1] # <<>>
    /\ raw_paragraphs[2] # <<>>

JoinedPair == <<raw_paragraphs[1] \o SEP \o raw_paragraphs[2]>>

\* C3 as stated: two non-empty paragraphs whose lengths total less than
\* max_chars give exactly one chunk, the two joined by the separator.
CE_C3_TotalBelowMax ==
    (TwoParagraphs /\ Len(raw_paragraphs[1]) + Len(raw_paragraphs[2]) < max_chars)
        => chunks = JoinedPair

\* C3 amended: two non-empty paragraphs whose lengths plus the two-character
\* separator total at most max_chars give exactly one chunk, the two joined
\* by the separator.
Thm_C3_PairFitsWithSeparator ==
    (TwoParagraphs /\ Len(raw_paragraphs[1]) + Len(raw_paragraphs[2]) + 2 <= max_chars)
        => chunks = JoinedPair

Wit_C3 ==
    /\ TwoParagraphs
    /\ Len(raw_paragraphs[1]) + Len(raw_paragraphs[2]) + 2 = max_chars
    /\ chunks = JoinedPair

\* the slices a paragraph longer than mx is cut into
ExpectedSlices(para, mx) ==
    [m \in 1..CeilDiv(Len(para), mx) |->
        SubSeq(para, (m - 1) * mx + 1, Min(m * mx, Len(para)))]

AtLongParagraph ==
    /\ cpc = "loop"
    /\ para_i <= Len(raw_paragraphs)
    /\ Len(raw_paragraphs[para_i]) > max_chars

\* C4: on a paragraph of length L > max_chars a non-empty accumulator is
\* emitted first and cleared, then the paragraph follows as ceil(L / max_chars)
\* slices in order, each of length max_chars except the last, which holds the
\* remainder.
Thm_C4_HardSplit ==
    [][AtLongParagraph =>
        LET para == raw_paragraphs[para_i]
            n == CeilDiv(Len(para), max_chars)
            flushed == IF current_chunk # <<>> THEN <<current_chunk>> ELSE <<>>
            base == Len(chunks) + Len(flushed)
        IN  /\ chunks' = chunks \o flushed \o ExpectedSlices(para, max_chars)
            /\ current_chunk' = <<>>
            /\ Len(chunks') = base + n
            /\ \A m \in 1..(n - 1) : Len(chunks'[base + m]) = max_chars
            /\ Len(chunks'[base + n]) = Len(para) - (n - 1) * max_chars
            /\ \A m \in 1..n : hard'[base + m]
            /\ Flatten(SubSeq(chunks', base + 1, base + n)) = para]_vars

\* a flushed accumulator followed by pieces of lengths 2, 2, 1 (L = 5, max_chars = 2)
Wit_C4 ==
    /\ max_chars = 2
    /\ Len(chunks) >= 4
    /\ hard = <<FALSE, TRUE, TRUE, TRUE>> \o SubSeq(hard, 5, Len(hard))
    /\ Len(chunks[2]) = 2 /\ Len(chunks[3]) = 2 /\ Len(chunks[4]) = 1
    /\ current_chunk = <<>>
    /\ cpc = "loop"

(***************************************************************************)
(* Properties of the corpus indexer and of the index load                  *)
(***************************************************************************)
DocByName(n) == CHOOSE d \in 1..Len(documents) : documents[d].name = n

\* position i of the chunk list and of the metadata list is chunk j of a document
AlignedAt(i) ==
    LET n == metadata[i][1]
        j == metadata[i][2]
    IN  /\ \E d \in 1..Len(documents) : documents[d].name = n
        /\ j >= 0
        /\ j < Len(DocChunks(DocByName(n)))
        /\ all_chunks[i] = DocChunks(DocByName(n))[j + 1]

\* C5: the chunk list and the metadata list have equal length after every
\* append step, metadata[i] = (document, j) where chunks[i] is chunk j of that
\* document's split, and once the index is built it holds as many vectors as
\* there are chunks, vector i being the embedding of chunks[i].
Thm_C5_IndexAligned ==
    /\ Len(all_chunks) = Len(metadata)
    /\ \A i \in 1..Len(all_chunks) : AlignedAt(i)
    /\ bpc \in {"write_index", "write_meta", "done"} =>
         /\ all_chunks # <<>>
         /\ all_chunks = ChunksOfCorpus(documents, 1)
         /\ Len(build_index) = Len(all_chunks)
         /\ \A i \in 1..Len(all_chunks) : build_index[i] = Encode(all_chunks[i])
         /\ \A d \in 1..Len(documents) : \A j \in 1..Len(DocChunks(d)) :
              \E i \in 1..Len(all_chunks) :
                  metadata[i] = <<documents[d].name, j - 1>>

Wit_C5 ==
    /\ bpc = "done"
    /\ Len(documents) = 2
    /\ Len(all_chunks) >= 4
    /\ \E i \in 1..Len(metadata) : metadata[i] = <<documents[2].name, 1>>
    /\ \E i, j \in 1..Len(build_index) : build_index[i] # build_index[j]

\* C9 as stated: the service never serves from artifacts whose lengths differ;
\* a mismatched pair makes the load raise.
CE_C9_LoadRejectsMismatch ==
    svc = "serving" =>
        /\ Len(index) = Len(chunks_texts)
        /\ Len(chunks_texts) = Len(chunks_meta)

(***************************************************************************)
(* Properties of the retriever                                             *)
(***************************************************************************)
KeptLabels == SelectSeq(indices, LAMBDA i : 0 <= i /\ i < Len(index))

\* C6: over an index of N vectors aligned with N chunks, a retrieval with
\* k >= 1 returns exactly min(k, N) results; labels outside [0, N) are
\* skipped, each result pairs chunks[i] with metadata[i] for the same in-range
\* label i, and the results keep the ascending-distance order of the search.
Thm_C6_RetrieveCount ==
    k >= 1 =>
        /\ ~retrieve_raised
        /\ Len(retrieved_texts) = Min(k, Len(index))
        /\ Len(retrieved_meta) = Min(k, Len(index))
        /\ Len(KeptLabels) = Len(retrieved_texts)
        /\ \A m \in 1..Len(retrieved_texts) :
            /\ retrieved_texts[m] = chunks_texts[KeptLabels[m] + 1]
            /\ retrieved_meta[m] = chunks_meta[KeptLabels[m] + 1]
        /\ \A m, n \in 1..Len(retrieved_texts) :
            m < n => /\ KeptLabels[m] # KeptLabels[n]
                     /\ L2(Encode(retrieved_texts[m]), Encode(query))
                          <= L2(Encode(retrieved_texts[n]), Encode(query))

\* k = 5 against an index of 3 vectors: 3 results
Wit_C6 ==
    /\ k = 5
    /\ Len(index) = 3
    /\ Len(retrieved_texts) = 3
    /\ Cardinality({indices[i] : i \in 1..Len(indices)}) = 4
    /\ L2(Encode(retrieved_texts[1]), Encode(query))
         < L2(Encode(retrieved_texts[3]), Encode(query))

(***************************************************************************)
(* Properties of the grounding validator                                   *)
(***************************************************************************)
\* C7: an answer longer than MAX_CHARS is rejected by the length gate with a
\* length-exceeded reason, nothing is embedded and the explanation holds
\* neither a mean nor a per-chunk list; an answer of exactly MAX_CHARS is not
\* rejected by this gate.
Thm_C7_LengthGate ==
    vpc = "returned" =>
        /\ llm_output.len > MAX_CHARS =>
             /\ ~is_valid
             /\ validation_info.reason = "length_exceeded"
             /\ DOMAIN validation_info = {"reason"}
             /\ validator_encodes = 0
        /\ llm_output.len <= MAX_CHARS =>
             /\ validation_info.reason # "length_exceeded"
             /\ "average_similarity_with_chunks" \in DOMAIN validation_info
             /\ validator_encodes > 0

Wit_C7 ==
    /\ vpc = "returned"
    /\ llm_output.len = MAX_CHARS + 1000
    /\ Len(retrieved_texts) = 2
    /\ ~is_valid
    /\ validation_info = [reason |-> "length_exceeded"]

ExpectedSims ==
    [i \in 1..Len(retrieved_texts) |->
        cosine_similarity(llm_output.vec, Encode(retrieved_texts[i]))]

\* C8: an answer that passes the length gate is rejected exactly when the mean
\* of the per-chunk cosine similarities is below SIMILARITY_THRESHOLD, the mean
\* of no chunk being 0.0 (rejected) and a mean equal to the threshold accepted;
\* accepted or rejected, the explanation holds the mean and the per-chunk
\* list, one entry per retrieved chunk in order.
Thm_C8_GroundingGate ==
    (vpc = "returned" /\ llm_output.len <= MAX_CHARS) =>
        LET n == Len(retrieved_texts)
        IN  /\ is_valid <=>
                (n > 0 /\ SumSeq(ExpectedSims) >= SIMILARITY_THRESHOLD * n)
            /\ validation_info.individual_similarities = ExpectedSims
            /\ Len(validation_info.individual_similarities) = n
            /\ validation_info.average_similarity_with_chunks.num
                 = (IF n = 0 THEN 0 ELSE SumSeq(ExpectedSims))
            /\ validation_info.average_similarity_with_chunks.den
                 = (IF n = 0 THEN 1 ELSE n)
            /\ validation_info.reason = (IF is_valid THEN "success" ELSE "low_similarity")

\* two chunks of similarity 0.8 and -0.6: a mean of exactly 0.1, accepted
Wit_C8 ==
    /\ vpc = "returned"
    /\ llm_output.len = MAX_CHARS
    /\ is_valid
    /\ validation_info.individual_similarities = <<800, -600>>
    /\ validation_info.average_similarity_with_chunks = [num |-> 200, den |-> 2]

(***************************************************************************)
(* Properties of the /ask handler                                          *)
(***************************************************************************)
StageOrder == <<"idle", "retrieve", "prompt", "complete", "validate", "done">>
StageNo(p) == CHOOSE i \in 1..Len(StageOrder) : StageOrder[i] = p

\* within a request the stages only advance: each stage is entered from the
\* one before it, or the request ends
StageStep ==
    apc' # apc =>
        \/ apc' = "done"
        \/ /\ apc' = "retrieve" /\ apc \in {"idle", "done"}
        \/ /\ apc \notin {"idle", "done"}
           /\ StageNo(apc') = StageNo(apc) + 1

\* what holds of a request at each stage and at its end, by response status
AskPipeline ==
    /\ retrieval_calls <= 1 /\ completion_calls <= 1 /\ validation_calls <= 1
    /\ completion_calls <= retrieval_calls
    /\ validation_calls <= completion_calls
    /\ apc \in {"idle", "retrieve"} =>
         retrieval_calls = 0 /\ completion_calls = 0 /\ validation_calls = 0
    /\ apc \in {"prompt", "complete"} =>
         retrieval_calls = 1 /\ completion_calls = 0 /\ validation_calls = 0
    /\ apc = "complete" => prompt = build_prompt(question, retrieved_texts)
    /\ apc = "validate" => completion_calls = 1 /\ validation_calls = 0
    /\ apc # "done" => response.status = 0
    /\ apc = "done" =>
         /\ response.status \in {200, 400, 500, 502}
         /\ response.status = 400 <=> Strip(request_question) = <<>>
         /\ response.status = 400 =>
              retrieval_calls = 0 /\ completion_calls = 0 /\ validation_calls = 0
         /\ response.status = 500 => validation_calls = 0
         /\ response.status = 200 =>
              /\ retrieval_calls = 1 /\ completion_calls = 1 /\ validation_calls = 1
              /\ is_valid
              /\ is_valid = validate_llm_output(llm_output, retrieved_texts).is_valid
              /\ response.answer = llm_output
              /\ response.retrieved_chunks = retrieved_texts
              /\ query = question
              /\ retrieved_texts = retrieve_top_k_chunks(indices).texts
         /\ response.status = 502 =>
              /\ validation_calls = 1
              /\ ~is_valid
              /\ response.detail.validation_info = validation_info
              /\ validation_info = validate_llm_output(llm_output, retrieved_texts).info
              /\ "answer" \notin DOMAIN response

\* C10: the request runs input check, retrieval, prompt assembly, completion,
\* validation in that order and stops at the first failure.  An empty question
\* (after strip) ends in a client error with retrieval and completion never
\* invoked; the completion service is called at most once; an answer is
\* returned only after the validator accepted that completion output against
\* the chunks retrieved for the request; a rejection yields an error carrying
\* the validator's explanation and no answer.
Thm_C10_AskPipeline == []AskPipeline /\ [][StageStep]_vars

Wit_C10 ==
    /\ apc = "done"
    /\ response.status = 200
    /\ Len(retrieved_texts) >= 2
    /\ response.answer = llm_output
    /\ validation_info.reason = "success"
    /\ request_question # question

====
